---- MODULE Spec2Model ----
(***************************************************************************)
(* Model of champ/kd.py: the KdFitIA estimator object (baseline and        *)
(* saturation profiles, strategy dispatch tables, the batch scan, the      *)
(* result writer) and the result-file reader IAKdData.                     *)
(*                                                                         *)
(* Interpreter.  setup.py:31 declares Python 3.7 and kd.py:402 uses an     *)
(* f-string, so the module only loads under Python >= 3.6.  There          *)
(*   - print(...) is a function returning None, so                         *)
(*     print("...").format(...) (kd.py:223, 276) raises AttributeError     *)
(*     after printing;                                                     *)
(*   - map(...) returns an iterator, so params[:idx1] (kd.py:156-157)      *)
(*     raises TypeError.                                                   *)
(* Every call below is one action; a call that raises keeps the attribute  *)
(* assignments made before the raise and records the exception in exc.    *)
(*                                                                         *)
(* Numbers.  Intensities are fixed-point integers in units of 1/Scale,     *)
(* where every concentration divides Scale, so that                        *)
(* Imin + (1 + Kd/conc) * (med - Imin) is computed exactly; comparisons    *)
(* of quotients are made by cross-multiplication.  Floating-point rounding *)
(* is not modelled.                                                        *)
(*                                                                         *)
(* Optional Python attributes are sequences of length 0 (unset) or 1.      *)
(***************************************************************************)
EXTENDS Integers, Sequences, FiniteSets, TLC

\* Largest raw intensity a dataset holds (medians, fitted Imax_const).
MaxInten == 3

\* Number of negative-control clusters per concentration.
PoolSize == 3

\* Largest number of result rows in a file handed to the reader.
MaxRows == 2

\* max_clust given to KdFitIA: the most clusters one fit uses.
MaxClust == 1

\* IA.course_trait_list: the concentrations (pM), in order.
Concentrations == <<1, 10>>

NConc == Len(Concentrations)

RECURSIVE Prod(_)
Prod(s) == IF s = <<>> THEN 1 ELSE s[1] * Prod(Tail(s))

\* Fixed-point unit: intensities are stored multiplied by Scale.
Scale == Prod(Concentrations)

Fx(i) == i * Scale

\* Raw intensities of negative-control clusters.
NegIntens == {1, 2}

\* Raw intensities of target medians and of the fitted asymptote.
Intens == 1 .. MaxInten

\* Reference Kd values the least-squares fit of the target may return (pM).
KdVals == {1, 5, 30}

\* IA.target, IA.neg_control_target, IA.seqs.
Target == "T"
NegControl == "N"
IASeqs == <<"T", "N", "S">>

Range(s) == {s[i] : i \in DOMAIN s}

\* len(IA.intensity_lol_given_seq[seq][0]): the clusters of a sequence; "S" is a
\* sequence without any.
ClusterCount == [seq \in Range(IASeqs) |-> IF seq = "S" THEN 0 ELSE PoolSize]

Count(s, v) == Cardinality({i \in DOMAIN s : s[i] = v})

RECURSIVE Concat(_)
Concat(ss) == IF ss = <<>> THEN <<>> ELSE ss[1] \o Concat(Tail(ss))

RECURSIVE Sum(_)
Sum(s) == IF s = <<>> THEN 0 ELSE s[1] + Sum(Tail(s))

\* The mode of a pool of readings: its most frequent value, the smallest on a tie.
Mode(pool) ==
    CHOOSE v \in Range(pool) :
        \A w \in Range(pool) :
            \/ Count(pool, v) > Count(pool, w)
            \/ Count(pool, v) = Count(pool, w) /\ v <= w

\* n^2 times the variance of a pool: the encoding of its standard deviation.
Spread(pool) ==
    Len(pool) * Sum([i \in DOMAIN pool |-> pool[i] * pool[i]]) - Sum(pool) * Sum(pool)

Sorted(s) == \A i \in 1 .. Len(s) - 1 : s[i] <= s[i + 1]

\* The pools of one sequence at one concentration, up to the order of its clusters.
Pools == {p \in [1 .. PoolSize -> NegIntens] : Sorted(p)}

\* The outcomes of scipy's curve_fit on the target: non-convergence, or popt.
FitOutcomes ==
    {[ok |-> FALSE, Kd |-> 0, Imax |-> 0]}
        \cup {[ok |-> TRUE, Kd |-> k, Imax |-> m] : k \in KdVals, m \in Intens}

\* The datasets: what the intensity array answers for the negative control and
\* the target.
Datasets ==
    [negPools : [1 .. NConc -> Pools],
     medians : [1 .. NConc -> Intens],
     fit : FitOutcomes]

\* IA.modes_given_seq(neg_control_target), IA.stdevs_given_seq(...),
\* IA.medians_given_seq(target), one entry per concentration.
modes_given_seq(ia) == [c \in 1 .. NConc |-> Fx(Mode(ia.negPools[c]))]

stdevs_given_seq(ia) == [c \in 1 .. NConc |-> Spread(ia.negPools[c])]

medians_given_seq(ia) == [c \in 1 .. NConc |-> Fx(ia.medians[c])]

\* None.
None == <<>>

\* IA.intensity_lol_given_seq[seq]: for every concentration the intensities of
\* the clusters of seq, in cluster order, None for a cluster without a reading
\* there (the i-th target cluster has none at the i-th concentration).
intensity_lol_given_seq(ia, seq) ==
    [c \in 1 .. NConc |->
        [i \in 1 .. ClusterCount[seq] |->
            IF seq = NegControl THEN <<Fx(ia.negPools[c][i])>>
            ELSE IF i = c THEN None
            ELSE <<Fx(ia.medians[c])>>]]

\* The mode of the negative-control readings of all concentrations together.
PooledMode(ia) == Fx(Mode(Concat(ia.negPools)))

VARIABLES IA, self, fs, kd, call, exc, ml

vars == <<IA, self, fs, kd, call, exc, ml>>

Unset == <<>>

IsSet(a) == a # <<>>

Val(a) == a[1]

IminNames == {"Imin_const", "Imin_neg_cont"}

ImaxNames == {"Imax_const", "Imax_adjusted", "Imax_ML"}

\* KdFitIA.__init__: the two default strategies are registered, nothing is fitted.
NewKdFitIA ==
    [Imin_names |-> <<"Imin_const">>,
     Imax_names |-> <<"Imax_adjusted">>,
     Imin_neg_cont |-> Unset,
     Imin_const |-> Unset,
     Imin_given_conc |-> Unset,
     Imin_stdev |-> Unset,
     Imin_stdev_given_conc |-> Unset,
     Imax_const |-> Unset,
     Imax_adjusted |-> Unset,
     Imax_given_conc |-> Unset,
     Imax_ML |-> Unset,
     sigma_consts |-> Unset,
     sigma_I |-> Unset,
     fit_func_given_Imin_max_names |-> Unset,
     Imin_max_pairs_given_names |-> Unset,
     Kds |-> Unset,
     Kd_errors |-> Unset,
     ABAs |-> Unset,
     ABA_errors |-> Unset]

\* ml holds the arguments and the bootstrap locals of an ML_fit_Kd call when that
\* call is the last one made, and nothing otherwise.
NoLocals == <<>>

Returns(name) == call' = name /\ exc' = "" /\ ml' = NoLocals

Raises(name, e) == call' = name /\ exc' = e /\ ml' = NoLocals

\* dict(zip(self.concentrations, values)) as a function of the concentration.
ZipConc(values) ==
    [x \in Range(Concentrations) |->
        values[CHOOSE c \in 1 .. NConc : Concentrations[c] = x]]

(***************************************************************************)
(* add_Imin_type, add_Imax_type                                            *)
(***************************************************************************)
AppendNew(names, name) ==
    IF name \in Range(names) THEN names ELSE Append(names, name)

\* The assert on kd.py:36 rejects any other name.
add_Imin_type(Imin_name) ==
    /\ IF Imin_name \in IminNames
           THEN /\ self' = [self EXCEPT !.Imin_names = AppendNew(@, Imin_name)]
                /\ Returns("add_Imin_type")
           ELSE /\ UNCHANGED self
                /\ Raises("add_Imin_type", "AssertionError")
    /\ UNCHANGED <<IA, fs, kd>>

\* The assert on kd.py:44 rejects any other name.
add_Imax_type(Imax_name) ==
    /\ IF Imax_name \in ImaxNames
           THEN /\ self' = [self EXCEPT !.Imax_names = AppendNew(@, Imax_name)]
                /\ Returns("add_Imax_type")
           ELSE /\ UNCHANGED self
                /\ Raises("add_Imax_type", "AssertionError")
    /\ UNCHANGED <<IA, fs, kd>>

(***************************************************************************)
(* find_Imin_and_background_noise                                          *)
(***************************************************************************)
\* IminConstOf taking the mode of the last concentration instead of the first.
IminConstOfLast(Imin_neg_cont) == Imin_neg_cont[Len(Imin_neg_cont)]

\* self.Imin_const as assigned on kd.py:54.
IminConstOf(Imin_neg_cont) == Imin_neg_cont[1]

find_Imin_and_background_noise ==
    LET modes == modes_given_seq(IA)
        stdevs == stdevs_given_seq(IA)
    IN  /\ self' = [self EXCEPT !.Imin_neg_cont = <<modes>>,
                                !.Imin_const = <<IminConstOf(modes)>>,
                                !.Imin_given_conc = <<ZipConc(modes)>>,
                                !.Imin_stdev = <<stdevs>>,
                                !.Imin_stdev_given_conc = <<ZipConc(stdevs)>>]
        /\ Returns("find_Imin_and_background_noise")
        /\ UNCHANGED <<IA, fs, kd>>

(***************************************************************************)
(* find_Imax, fit_Imax_ML                                                  *)
(***************************************************************************)
\* Below90 with the comparison turned round.
Below90Reversed(conc, Kd, Imax, Imin_const) ==
    LET D == conc + Kd
    IN  10 * (Imax - Imin_const) * conc * D + 10 * Imin_const * D * D
            > 9 * Imax * D * D

\* Iobs(conc, Kd, Imax) < 0.90 * Imax (kd.py:68-69, 82-83), with
\* Iobs = (Imax - Imin_const) / (1 + Kd / conc) + Imin_const: both sides are
\* multiplied by 10 * (conc + Kd)^2 > 0.
Below90(conc, Kd, Imax, Imin_const) ==
    LET D == conc + Kd
    IN  10 * (Imax - Imin_const) * conc * D + 10 * Imin_const * D * D
            < 9 * Imax * D * D

\* Imin + (1 + (perfect_Kd / conc)) * (med - Imin) (kd.py:87); med - Imin is a
\* multiple of Scale, so the division is exact.
Inverted(conc, Kd, Imin, med) == Imin + ((conc + Kd) * (med - Imin)) \div conc

\* ImaxAdjustedEntry inverting with the baseline of Iobs, Imin_const, instead of
\* the concentration's own negative-control mode.
ImaxAdjustedEntryConstBaseline(conc, Kd, Imax_const, Imin_const, Imin, med) ==
    IF Below90(conc, Kd, Imax_const, Imin_const)
        THEN Imax_const
        ELSE Inverted(conc, Kd, Imin_const, med)

\* One entry of self.Imax_adjusted (kd.py:82-87).
ImaxAdjustedEntry(conc, Kd, Imax_const, Imin_const, Imin, med) ==
    IF Below90(conc, Kd, Imax_const, Imin_const)
        THEN Imax_const
        ELSE Inverted(conc, Kd, Imin, med)

\* The loop of kd.py:80-87 over zip(concentrations, Imin_neg_cont, medians).
ImaxAdjustedOf(Kd, Imax_const, Imin_const, Imin_neg_cont, medians) ==
    [c \in 1 .. NConc |->
        ImaxAdjustedEntry(Concentrations[c], Kd, Imax_const, Imin_const,
                          Imin_neg_cont[c], medians[c])]

EmptyDict == <<>>

\* fit_Imax_ML up to its raise: kd.py:187 empties the three dictionaries, and the
\* first fit_Imax_ML_given_Imin never returns (neg_log_L subscripts a map object,
\* kd.py:156-157), so nothing is stored in them.
FitImaxMLState(s) ==
    [s EXCEPT !.Imax_ML = <<EmptyDict>>,
              !.sigma_consts = <<EmptyDict>>,
              !.sigma_I = <<EmptyDict>>]

\* The exception fit_Imax_ML ends with on object s: the attribute reads of
\* kd.py:189 and 164-167, a curve_fit_Kd of the initial guess that does not
\* converge (scipy raises RuntimeError), else the TypeError of kd.py:157.
FitImaxMLError(s, ML_seqs, converges) ==
    IF ~IsSet(s.Imin_const) \/ ~IsSet(s.Imax_const) THEN "AttributeError"
    ELSE IF ML_seqs # <<>> /\ ~converges THEN "RuntimeError"
    ELSE "TypeError"

fit_Imax_ML(ML_seqs, converges) ==
    /\ self' = FitImaxMLState(self)
    /\ Raises("fit_Imax_ML", FitImaxMLError(self, ML_seqs, converges))
    /\ UNCHANGED <<IA, fs, kd>>

\* find_Imax: the attribute read of Imin_const inside curve_fit's first
\* evaluation of Iobs, scipy's RuntimeError when the fit does not converge, the
\* profiles, then fit_Imax_ML when ML_seqs is not empty.
find_Imax(ML_seqs, converges) ==
    /\ IF ~IsSet(self.Imin_const)
           THEN /\ UNCHANGED self
                /\ Raises("find_Imax", "AttributeError")
       ELSE IF ~IA.fit.ok
           THEN /\ UNCHANGED self
                /\ Raises("find_Imax", "RuntimeError")
       ELSE LET perfect_Kd == IA.fit.Kd
                Imax_const == Fx(IA.fit.Imax)
                adjusted == ImaxAdjustedOf(perfect_Kd, Imax_const,
                                           Val(self.Imin_const),
                                           Val(self.Imin_neg_cont),
                                           medians_given_seq(IA))
                fitted == [self EXCEPT !.Imax_const = <<Imax_const>>,
                                       !.Imax_adjusted = <<adjusted>>,
                                       !.Imax_given_conc = <<ZipConc(adjusted)>>]
            IN  IF ML_seqs = <<>>
                    THEN /\ self' = fitted
                         /\ Returns("find_Imax")
                    ELSE /\ self' = FitImaxMLState(fitted)
                         /\ Raises("find_Imax",
                                   FitImaxMLError(fitted, ML_seqs, converges))
    /\ UNCHANGED <<IA, fs, kd>>

(***************************************************************************)
(* curve_fit_Kd, ML_fit_Kd                                                 *)
(***************************************************************************)
\* curve_fit_Kd assigns no attribute: it returns popt[0], or scipy's curve_fit
\* raises RuntimeError when the least-squares fit does not converge (kd.py:243).
curve_fit_Kd(seq, converges) ==
    /\ IF converges
           THEN Returns("curve_fit_Kd")
           ELSE Raises("curve_fit_Kd", "RuntimeError")
    /\ UNCHANGED <<IA, self, fs, kd>>

\* The exception ML_fit_Kd ends with ("" when it returns): np.random.choice on an
\* empty pool (kd.py:200-204; it raises ValueError in the numpy releases that
\* refuse an empty population, strict), getattr on kd.py:208, the reads of
\* self.Imax_ML[Imin_name] in neg_log_L (kd.py:215), and on non-convergence the
\* print(...).format of kd.py:223.
MLFitKdError(s, seq, Imin_name, bootstrap, strict, success) ==
    IF bootstrap /\ ClusterCount[seq] = 0 /\ strict THEN "ValueError"
    ELSE IF ~IsSet(s[Imin_name]) THEN "AttributeError"
    ELSE IF ~IsSet(s.Imax_ML) THEN "AttributeError"
    ELSE IF Imin_name \notin DOMAIN Val(s.Imax_ML) THEN "KeyError"
    ELSE IF ~success THEN "AttributeError"
    ELSE ""

\* np.random.choice(np.arange(n), size=min(n, max_clust), replace=True)
\* (kd.py:199-203): every array of that many positions of 0 .. n - 1.
BootstrapDraws(n) == [1 .. (IF n <= MaxClust THEN n ELSE MaxClust) -> 0 .. n - 1]

\* model_logL, kd.py:131-133: [inten_list[idx] for idx in bootstrap_idxs
\* if inten_list[idx] is not None]; an entry of inten_list is <<>> for None and
\* <<value>> otherwise.
Resample(inten_list, bootstrap_idxs) ==
    LET picked == [k \in DOMAIN bootstrap_idxs |-> inten_list[bootstrap_idxs[k] + 1]]
        present == SelectSeq(picked, LAMBDA e : e # None)
    IN  [k \in DOMAIN present |-> present[k][1]]

\* model_logL, kd.py:135: inten_arr[:max_clust] of the array of the intensities
\* that are present.
FirstMaxClust(inten_list) ==
    LET present == SelectSeq(inten_list, LAMBDA e : e # None)
    IN  [k \in 1 .. (IF Len(present) <= MaxClust THEN Len(present) ELSE MaxClust) |->
            present[k][1]]

\* The arguments and bootstrap locals of an ML_fit_Kd call that drew idxs:
\* bootstrap_idxs is set when kd.py:199 returned, inten_arrs (the
\* per-concentration arrays model_logL builds, kd.py:129-135) when model_logL
\* was entered, that is when self.Imax_ML[Imin_name] could be read.
MLLocals(s, seq, Imin_name, bootstrap, strict, success, idxs) ==
    LET e == MLFitKdError(s, seq, Imin_name, bootstrap, strict, success)
        lol == intensity_lol_given_seq(IA, seq)
        drew == bootstrap /\ e # "ValueError"
        entered == /\ IsSet(s[Imin_name])
                   /\ IsSet(s.Imax_ML)
                   /\ Imin_name \in DOMAIN Val(s.Imax_ML)
                   /\ e # "ValueError"
    IN  [seq |-> seq,
         Imin_name |-> Imin_name,
         bootstrap |-> bootstrap,
         bootstrap_idxs |-> IF drew THEN <<idxs>> ELSE Unset,
         inten_arrs |->
            IF ~entered THEN Unset
            ELSE IF bootstrap
                THEN <<[c \in 1 .. NConc |-> Resample(lol[c], idxs)]>>
                ELSE <<[c \in 1 .. NConc |-> FirstMaxClust(lol[c])]>>]

\* Whether np.random.choice refuses an empty population depends on the numpy
\* release; it matters only to a bootstrap fit of a sequence without clusters.
NumpyReleases(seq, bootstrap) ==
    IF bootstrap /\ ClusterCount[seq] = 0 THEN BOOLEAN ELSE {FALSE}

\* res.success of minimize (kd.py:220-222): an outcome exists only when the
\* objective could be evaluated, that is when self.Imax_ML[Imin_name] can be read.
MinimizeOutcomes(s, Imin_name) ==
    IF IsSet(s.Imax_ML) /\ Imin_name \in DOMAIN Val(s.Imax_ML)
        THEN BOOLEAN ELSE {TRUE}

\* ML_fit_Kd assigns no attribute. strict and success are outcomes of numpy and
\* of minimize, taken where the call reaches them.
ML_fit_Kd(seq, Imin_name, bootstrap, strict, success) ==
    \E idxs \in (IF bootstrap THEN BootstrapDraws(ClusterCount[seq]) ELSE {<<>>}) :
        /\ strict \in NumpyReleases(seq, bootstrap)
        /\ success \in MinimizeOutcomes(self, Imin_name)
        /\ call' = "ML_fit_Kd"
        /\ exc' = MLFitKdError(self, seq, Imin_name, bootstrap, strict, success)
        /\ ml' = <<MLLocals(self, seq, Imin_name, bootstrap, strict, success, idxs)>>
        /\ UNCHANGED <<IA, self, fs, kd>>

(***************************************************************************)
(* setup_for_fit                                                           *)
(***************************************************************************)
\* getattr(self, name) for a strategy name: the profile, tagged with its shape.
Profile(s, name) ==
    CASE name \in {"Imin_const", "Imax_const"} -> [tag |-> "scalar", v |-> s[name]]
      [] name \in {"Imin_neg_cont", "Imax_adjusted"} ->
            [tag |-> "list", v |-> Val(s[name])]
      [] OTHER -> [tag |-> "dict", v |-> <<>>]

\* itertools.product(Imin_names, Imax_names), in its order.
ProductPairs(Imin_names, Imax_names) ==
    [k \in 1 .. Len(Imin_names) * Len(Imax_names) |->
        <<Imin_names[((k - 1) \div Len(Imax_names)) + 1],
          Imax_names[((k - 1) % Len(Imax_names)) + 1]>>]

\* How many pairs the first loop (kd.py:251-255) stores before a getattr raises.
PairsStored(s, pairs) ==
    LET bad == {k \in DOMAIN pairs :
                    ~IsSet(s[pairs[k][1]]) \/ ~IsSet(s[pairs[k][2]])}
    IN  IF bad = {} THEN Len(pairs)
        ELSE (CHOOSE k \in bad : \A j \in bad : k <= j) - 1

\* How many baselines the second loop (kd.py:258-263) stores before
\* self.Imax_ML[Imin_name] raises KeyError.
MLStored(s) ==
    LET names == s.Imin_names
        bad == {k \in DOMAIN names : names[k] \notin DOMAIN Val(s.Imax_ML)}
    IN  IF bad = {} THEN Len(names)
        ELSE (CHOOSE k \in bad : \A j \in bad : k <= j) - 1

\* The object and the exception ("" for none) after setup_for_fit(force).
SetupForFit(s, force) ==
    IF IsSet(s.fit_func_given_Imin_max_names) /\ ~force
        THEN [self |-> s, exc |-> ""]
    ELSE
        LET pairs == ProductPairs(s.Imin_names, s.Imax_names)
            n == PairsStored(s, pairs)
            keys1 == {pairs[k] : k \in 1 .. n}
            withML == n = Len(pairs) /\ "Imax_ML" \in Range(s.Imax_names)
            m == IF withML THEN MLStored(s) ELSE 0
            keysML == {<<s.Imin_names[k], "Imax_ML">> : k \in 1 .. m}
            funcs == [p \in keys1 |->
                        IF p \in keysML THEN "ML_fit_Kd" ELSE "curve_fit_Kd"]
            profs == [p \in keys1 |->
                        [Imin |-> Profile(s, p[1]),
                         Imax |-> IF p \in keysML
                                     THEN [tag |-> "list",
                                           v |-> Val(s.Imax_ML)[p[1]]]
                                     ELSE Profile(s, p[2])]]
        IN  [self |-> [s EXCEPT !.fit_func_given_Imin_max_names = <<funcs>>,
                                !.Imin_max_pairs_given_names = <<profs>>],
             exc |-> IF n < Len(pairs) THEN "AttributeError"
                     ELSE IF withML /\ m < Len(s.Imin_names) THEN "KeyError"
                     ELSE ""]

setup_for_fit(force) ==
    LET r == SetupForFit(self, force)
    IN  /\ self' = r.self
        /\ call' = "setup_for_fit"
        /\ exc' = r.exc
        /\ ml' = NoLocals
        /\ UNCHANGED <<IA, fs, kd>>

(***************************************************************************)
(* fit_all_Kds                                                             *)
(***************************************************************************)
\* {name_tup: [] for name_tup in self.fit_func_given_Imin_max_names.keys()}
EmptyLists(s) == [p \in DOMAIN Val(s.fit_func_given_Imin_max_names) |-> <<>>]

\* kd.py:271-274.
ResetResults(s) ==
    [s EXCEPT !.Kds = <<EmptyLists(s)>>,
              !.Kd_errors = <<EmptyLists(s)>>,
              !.ABAs = <<EmptyLists(s)>>,
              !.ABA_errors = <<EmptyLists(s)>>]

\* fit_all_Kds: setup_for_fit(); the four result dictionaries are emptied; then
\* print("...").format(...) on kd.py:276 raises AttributeError, before the first
\* strategy pair is fitted (kd.py:277-296 is not reached).
fit_all_Kds ==
    LET r == SetupForFit(self, FALSE)
    IN  /\ IF r.exc # ""
               THEN /\ self' = r.self
                    /\ Raises("fit_all_Kds", r.exc)
               ELSE /\ self' = ResetResults(r.self)
                    /\ Raises("fit_all_Kds", "AttributeError")
        /\ UNCHANGED <<IA, fs, kd>>

(***************************************************************************)
(* write_results                                                           *)
(***************************************************************************)
\* A line of a file, without its newline: text holds its characters in groups
\* (a header, or the first word of a row), nums the tab-separated numbers that
\* follow, each written with str(float(x)), which float(...) reads back exactly.
Line(text, nums) == [text |-> text, nums |-> nums]

TargetHeader == <<"# Target", ":", " ">>

NegControlHeader == <<"# Neg Control", ":", " ">>

ConcHeader == <<"# Concentration", "\t", "Imin", "\t", "Imax">>

SeqHeader ==
    <<"# Seq", "\t", "Kd (pM)", "\t", "Kd error", "\t", "ABA (kB T)", "\t",
      "ABA error">>

\* sorted(...) of the strategy pairs: Python's order of the names
\* ('Imin_const' < 'Imin_neg_cont'; 'Imax_ML' < 'Imax_adjusted' < 'Imax_const').
AllPairsSorted ==
    <<<<"Imin_const", "Imax_ML">>, <<"Imin_const", "Imax_adjusted">>,
      <<"Imin_const", "Imax_const">>, <<"Imin_neg_cont", "Imax_ML">>,
      <<"Imin_neg_cont", "Imax_adjusted">>, <<"Imin_neg_cont", "Imax_const">>>>

SortedPairs(keys) == SelectSeq(AllPairsSorted, LAMBDA p : p \in keys)

\* A file that is not a result file of this object: the reader's other inputs.
ExtFile == <<"ext", "ext">>

\* The files of out_dir, named by strategy pair (bname is fixed).
FileNames == Range(AllPairsSorted) \cup {ExtFile}

NoFiles == [f \in FileNames |-> Unset]

\* misc.list_if_scalar(x, len(self.concentrations)): a scalar is repeated, a list
\* or a dictionary is returned as it is.
list_if_scalar(profile) ==
    IF profile.tag = "scalar" THEN [c \in 1 .. NConc |-> profile.v[1]] ELSE profile.v

Min(a, b) == IF a <= b THEN a ELSE b

\* kd.py:309-314: what is written before the result dictionaries are read.
HeaderLines(Imin, Imax) ==
    <<Line(TargetHeader \o <<Target>>, <<>>),
      Line(NegControlHeader \o <<NegControl>>, <<>>),
      Line(ConcHeader, <<>>)>>
        \o [c \in 1 .. Min(NConc, Min(Len(Imin), Len(Imax))) |->
                Line(<<>>, <<Concentrations[c], Imin[c], Imax[c]>>)]
        \o <<Line(SeqHeader, <<>>)>>

\* kd.py:315-327: one row per element of zip(IA.seqs, Kds, Kd_errors, ABAs,
\* ABA_errors) of the pair.
ResultRows(s, p) ==
    LET n == Min(Len(IASeqs),
                 Min(Min(Len(Val(s.Kds)[p]), Len(Val(s.Kd_errors)[p])),
                     Min(Len(Val(s.ABAs)[p]), Len(Val(s.ABA_errors)[p]))))
    IN  [i \in 1 .. n |->
            Line(<<IASeqs[i]>>,
                 <<Val(s.Kds)[p][i], Val(s.Kd_errors)[p][i],
                   Val(s.ABAs)[p][i], Val(s.ABA_errors)[p][i]>>)]

\* The exception reading self.Kds[names_tup] raises (kd.py:317), "" for none.
ResultsError(s, p) ==
    IF ~IsSet(s.Kds) THEN "AttributeError"
    ELSE IF p \notin DOMAIN Val(s.Kds) THEN "KeyError"
    ELSE ""

\* The loop of write_results from the i-th pair on: each file is opened for
\* writing and its header lines are written before self.Kds is read, so a raise
\* there leaves the file with its header lines only.
RECURSIVE WriteFrom(_, _, _, _)
WriteFrom(s, pairs, i, files) ==
    IF i > Len(pairs) THEN [fs |-> files, exc |-> ""]
    ELSE
        LET p == pairs[i]
            prof == Val(s.Imin_max_pairs_given_names)[p]
            head == HeaderLines(list_if_scalar(prof.Imin), list_if_scalar(prof.Imax))
            e == ResultsError(s, p)
        IN  IF e # ""
                THEN [fs |-> [files EXCEPT ![p] = <<head>>], exc |-> e]
                ELSE WriteFrom(s, pairs, i + 1,
                               [files EXCEPT ![p] = <<head \o ResultRows(s, p)>>])

WriteResults(s, files) ==
    IF ~IsSet(s.Imin_max_pairs_given_names)
        THEN [fs |-> files, exc |-> "AttributeError"]
        ELSE WriteFrom(s, SortedPairs(DOMAIN Val(s.Imin_max_pairs_given_names)),
                       1, files)

write_results ==
    LET r == WriteResults(self, fs)
    IN  /\ fs' = r.fs
        /\ call' = "write_results"
        /\ exc' = r.exc
        /\ ml' = NoLocals
        /\ UNCHANGED <<IA, self, kd>>

(***************************************************************************)
(* IAKdData.__init__                                                       *)
(***************************************************************************)
Whitespace == {" ", "\t"}

\* The character groups that begin with '#'.
HashGroups == {"#", "# Target", "# Neg Control", "# Concentration", "# Seq"}

\* line.startswith(prefix), the prefix given in character groups.
StartsWith(text, prefix) ==
    Len(text) >= Len(prefix) /\ SubSeq(text, 1, Len(prefix)) = prefix

\* line.startswith('#')
StartsWithHash(line) == line.text # <<>> /\ line.text[1] \in HashGroups

\* text.strip()
RECURSIVE Strip(_)
Strip(text) ==
    IF text = <<>> THEN text
    ELSE IF text[1] \in Whitespace THEN Strip(Tail(text))
    ELSE IF text[Len(text)] \in Whitespace THEN Strip(SubSeq(text, 1, Len(text) - 1))
    ELSE text

\* The places in text where ': ' starts.
Separators(text) ==
    {i \in 1 .. Len(text) - 1 : text[i] = ":" /\ text[i + 1] = " "}

\* line.strip().split(': ')[1]: a sequence holding the second part, or none when
\* ': ' does not occur (IndexError).
SecondPart(line) ==
    LET text == Strip(line.text)
        seps == Separators(text)
    IN  IF seps = {} THEN <<>>
        ELSE LET i1 == CHOOSE i \in seps : \A j \in seps : i <= j
                 later == {j \in seps : j > i1 + 1}
                 stop == IF later = {} THEN Len(text) + 1
                         ELSE CHOOSE j \in later : \A k \in later : j <= k
             IN  <<SubSeq(text, i1 + 2, stop - 1)>>

\* Whether line.strip().split() has a word that is not a number.
HasTextWord(line) == Strip(line.text) # <<>>

\* The first word of line.strip().split() when the line begins with text: the
\* characters up to the first whitespace.
RECURSIVE FirstWord(_)
FirstWord(text) ==
    IF text = <<>> \/ text[1] \in Whitespace THEN <<>>
    ELSE <<text[1]>> \o FirstWord(Tail(text))

\* The first word of a line that begins with a number.
NumberWord == <<"(number)">>

EmptyIAKdData(path) ==
    [path |-> path,
     concentrations |-> <<>>, Imin |-> <<>>, Imax |-> <<>>,
     Kd |-> EmptyDict, Kd_error |-> EmptyDict, ABA |-> EmptyDict,
     ABA_error |-> EmptyDict,
     target |-> Unset, neg_control_target |-> Unset,
     neg_control_Kd |-> Unset, log_neg_control_Kd |-> Unset, target_ABA |-> Unset]

Put(dict, key, value) == (key :> value) @@ dict

Done(o, e) == [obj |-> o, exc |-> e]

\* kd.py:524-526.
ReadFinish(o) ==
    IF Val(o.neg_control_target) \notin DOMAIN o.Kd THEN Done(o, "KeyError")
    ELSE
        LET o1 == [o EXCEPT !.neg_control_Kd = <<o.Kd[Val(o.neg_control_target)]>>,
                            !.log_neg_control_Kd =
                                <<[ln |-> o.Kd[Val(o.neg_control_target)]]>>]
        IN  IF Val(o.target) \notin DOMAIN o.ABA THEN Done(o1, "KeyError")
            ELSE Done([o1 EXCEPT !.target_ABA = <<o.ABA[Val(o.target)]>>], "")

\* kd.py:513-523: the rows after the '# Seq' line, from line i on.
RECURSIVE ReadRows(_, _, _)
ReadRows(lines, i, o) ==
    IF i > Len(lines) THEN ReadFinish(o)
    ELSE
        LET line == lines[i]
            text == Strip(line.text)
            seq == IF text # <<>> THEN FirstWord(text) ELSE NumberWord
            rest == IF text # <<>> THEN line.nums ELSE Tail(line.nums)
        IN  IF StartsWithHash(line) THEN ReadRows(lines, i + 1, o)
            ELSE IF text = <<>> /\ line.nums = <<>> THEN Done(o, "IndexError")
            ELSE IF seq \in DOMAIN o.Kd THEN Done(o, "AssertionError")
            ELSE IF seq # text \/ Len(rest) # 4 THEN Done(o, "ValueError")
            ELSE ReadRows(lines, i + 1,
                          [o EXCEPT !.Kd = Put(@, seq, rest[1]),
                                    !.Kd_error = Put(@, seq, rest[2]),
                                    !.ABA = Put(@, seq, rest[3]),
                                    !.ABA_error = Put(@, seq, rest[4])])

\* kd.py:505-512: the concentration rows from line i on, up to the next line
\* that begins with '#', which must begin with '# Seq'.
RECURSIVE ReadConcentrations(_, _, _)
ReadConcentrations(lines, i, o) ==
    IF i > Len(lines) THEN Done(o, "StopIteration")
    ELSE
        LET line == lines[i]
        IN  IF StartsWithHash(line)
                THEN IF StartsWith(line.text, <<"# Seq">>)
                         THEN ReadRows(lines, i + 1, o)
                         ELSE Done(o, "AssertionError")
            ELSE IF HasTextWord(line) \/ Len(line.nums) # 3
                THEN Done(o, "ValueError")
            ELSE ReadConcentrations(lines, i + 1,
                    [o EXCEPT !.concentrations = Append(@, line.nums[1]),
                              !.Imin = Append(@, line.nums[2]),
                              !.Imax = Append(@, line.nums[3])])

\* kd.py:503-504.
ReadConcHeader(lines, o) ==
    IF Len(lines) < 3 THEN Done(o, "StopIteration")
    ELSE IF ~StartsWith(lines[3].text, ConcHeader) THEN Done(o, "AssertionError")
    ELSE ReadConcentrations(lines, 4, o)

\* ReadNegControl without the assert of kd.py:501.
ReadNegControlUnchecked(lines, o) ==
    IF Len(lines) < 2 THEN Done(o, "StopIteration")
    ELSE IF SecondPart(lines[2]) = <<>> THEN Done(o, "IndexError")
    ELSE ReadConcHeader(lines,
                        [o EXCEPT !.neg_control_target = SecondPart(lines[2])])

\* kd.py:500-502.
ReadNegControl(lines, o) ==
    IF Len(lines) < 2 THEN Done(o, "StopIteration")
    ELSE IF ~StartsWith(lines[2].text, <<"# Neg Control">>)
        THEN Done(o, "AssertionError")
    ELSE IF SecondPart(lines[2]) = <<>> THEN Done(o, "IndexError")
    ELSE ReadConcHeader(lines,
                        [o EXCEPT !.neg_control_target = SecondPart(lines[2])])

\* kd.py:494-499: the object as far as it was built, and the exception that
\* ended the construction ("" when it succeeded).
ReadFile(path, lines) ==
    LET o == EmptyIAKdData(path)
    IN  IF Len(lines) < 1 THEN Done(o, "StopIteration")
        ELSE IF ~StartsWith(lines[1].text, <<"# Target", ":">>)
            THEN Done(o, "AssertionError")
        ELSE IF SecondPart(lines[1]) = <<>> THEN Done(o, "IndexError")
        ELSE ReadNegControl(lines, [o EXCEPT !.target = SecondPart(lines[1])])

IAKdData(Kd_fpath) ==
    /\ IsSet(fs[Kd_fpath])
    /\ LET r == ReadFile(Kd_fpath, Val(fs[Kd_fpath]))
       IN  /\ kd' = <<r.obj>>
           /\ call' = "IAKdData"
           /\ exc' = r.exc
           /\ ml' = NoLocals
    /\ UNCHANGED <<IA, self, fs>>

(***************************************************************************)
(* ABA                                                                     *)
(***************************************************************************)
\* np.log(1) .. np.log(8), in thousandths.
LnMilli == <<0, 693, 1099, 1386, 1609, 1792, 1946, 2079>>

\* np.log(x) for the Kd values of the model, which all lie in 1 .. 8.
np_log(x) == LnMilli[x]

\* The local function ABA of fit_all_Kds (kd.py:268-269).
ABA(Kd, neg_cont_Kd) == np_log(neg_cont_Kd) - np_log(Kd)

\* IAKdData.ABA_given_Kd on a constructed object o; Kd is <<>> for None, else
\* <<value>>, and so is the result.
ABA_given_Kd(o, Kd) ==
    IF Kd = <<>> THEN <<>>
    ELSE <<np_log(Val(o.log_neg_control_Kd).ln) - np_log(Kd[1])>>

(***************************************************************************)
(* Specifications                                                          *)
(***************************************************************************)
\* A fresh KdFitIA on dataset ia, an empty out_dir, no reader object.
Fresh(ia) ==
    /\ IA = ia
    /\ self = NewKdFitIA
    /\ fs = NoFiles
    /\ kd = Unset
    /\ call = "__init__"
    /\ exc = ""
    /\ ml = NoLocals

\* The calls on the estimator that fit the profiles.
ProfileCalls ==
    \/ find_Imin_and_background_noise
    \/ \E ML_seqs \in {<<>>, <<Target>>}, converges \in BOOLEAN :
            find_Imax(ML_seqs, converges)

\* The other calls on the estimator.
EstimatorCalls ==
    \/ \E name \in IminNames \cup {"Imin_other"} : add_Imin_type(name)
    \/ \E name \in ImaxNames \cup {"Imax_other"} : add_Imax_type(name)
    \/ \E ML_seqs \in {<<>>, <<Target>>}, converges \in BOOLEAN :
            fit_Imax_ML(ML_seqs, converges)
    \/ \E seq \in Range(IASeqs), converges \in BOOLEAN : curve_fit_Kd(seq, converges)
    \/ \E seq \in Range(IASeqs), Imin_name \in IminNames,
           bootstrap \in BOOLEAN, strict \in BOOLEAN, success \in BOOLEAN :
            ML_fit_Kd(seq, Imin_name, bootstrap, strict, success)
    \/ \E force \in BOOLEAN : setup_for_fit(force)
    \/ fit_all_Kds
    \/ write_results

\* The datasets of the call-sequence specification: one whose target fit
\* converges and one whose fit does not.
ProtocolDatasets ==
    {d \in Datasets :
        /\ \A c \in 1 .. NConc : d.negPools[c] = [i \in 1 .. PoolSize |-> 1]
        /\ \A c \in 1 .. NConc : d.medians[c] = MaxInten
        /\ d.fit.ok => d.fit.Kd = 1 /\ d.fit.Imax = MaxInten}

\* Every sequence of calls on one KdFitIA object, and the reading of the files
\* it wrote.
Init == \E ia \in ProtocolDatasets : Fresh(ia)

Next ==
    \/ ProfileCalls
    \/ EstimatorCalls
    \/ \E path \in Range(AllPairsSorted) : IAKdData(path)

Spec == Init /\ [][Next]_vars

\* The profile fits on every dataset.
InitProfiles == \E ia \in Datasets : Fresh(ia)

NextProfiles == ProfileCalls \/ \E force \in BOOLEAN : setup_for_fit(force)

SpecProfiles == InitProfiles /\ [][NextProfiles]_vars

\* The files handed to the reader: a result file in the format of write_results
\* with up to MaxRows rows, at most one of its four header lines changed in one
\* place (a character group replaced, dropped or inserted).
Replaced(text, i) == [text EXCEPT ![i] = "X"]

Dropped(text, i) == SubSeq(text, 1, i - 1) \o SubSeq(text, i + 1, Len(text))

Inserted(text, i) == SubSeq(text, 1, i - 1) \o <<"X">> \o SubSeq(text, i, Len(text))

Changed(text) ==
    {Replaced(text, i) : i \in 1 .. Len(text)}
        \cup {Dropped(text, i) : i \in 1 .. Len(text)}
        \cup {Inserted(text, i) : i \in 1 .. Len(text) + 1}

WrittenHeaders ==
    <<TargetHeader \o <<Target>>, NegControlHeader \o <<NegControl>>,
      ConcHeader, SeqHeader>>

HeaderSets ==
    {WrittenHeaders}
        \cup UNION {{[WrittenHeaders EXCEPT ![k] = t] : t \in Changed(WrittenHeaders[k])} :
                        k \in 1 .. 4}

RowIds == UNION {[1 .. n -> {Target, NegControl}] : n \in 0 .. MaxRows}

FileOf(headers, ids) ==
    <<Line(headers[1], <<>>), Line(headers[2], <<>>), Line(headers[3], <<>>)>>
        \o [c \in 1 .. NConc |-> Line(<<>>, <<Concentrations[c], Fx(1), Fx(2)>>)]
        \o <<Line(headers[4], <<>>)>>
        \o [i \in 1 .. Len(ids) |-> Line(<<ids[i]>>, <<i, 0, i, 0>>)]

ExternalFiles == {FileOf(h, ids) : h \in HeaderSets, ids \in RowIds}

\* The reader on the files handed to it.
InitReader ==
    \E ia \in ProtocolDatasets, f \in ExternalFiles :
        /\ IA = ia
        /\ self = NewKdFitIA
        /\ fs = [NoFiles EXCEPT ![ExtFile] = <<f>>]
        /\ kd = Unset
        /\ call = "__init__"
        /\ exc = ""
        /\ ml = NoLocals

NextReader == IAKdData(ExtFile)

SpecReader == InitReader /\ [][NextReader]_vars

(***************************************************************************)
(* Properties                                                              *)
(***************************************************************************)
\* Every profile a registered strategy names has been fitted.
ProfilesFitted ==
    /\ \A i \in DOMAIN self.Imin_names : IsSet(self[self.Imin_names[i]])
    /\ \A i \in DOMAIN self.Imax_names : IsSet(self[self.Imax_names[i]])

\* C1: when fit_all_Kds has ended on an estimator whose registered profiles are
\* fitted, it has not raised, and every StrategyPair holds one Kd for every
\* sequence of IA.seqs.
C1_ScanRecordsEverySequence ==
    (call = "fit_all_Kds" /\ ProfilesFitted)
        => /\ exc = ""
           /\ IsSet(self.Kds)
           /\ \A p \in DOMAIN Val(self.Kds) : Len(Val(self.Kds)[p]) = Len(IASeqs)

\* The sequences that have a row in a file.
RowSeqs(lines) == {lines[i].text : i \in {j \in DOMAIN lines : lines[j].nums # <<>>}}

\* C2: every result file in out_dir holds a row for every sequence of IA.seqs
\* (no file is written before the fits of its StrategyPair are complete).
C2_FilesHoldEverySequence ==
    \A f \in Range(AllPairsSorted) :
        IsSet(fs[f]) =>
            \A i \in DOMAIN IASeqs : <<IASeqs[i]>> \in RowSeqs(Val(fs[f]))

\* C3: reading a file written by write_results succeeds and gives back the
\* target, the negative control, the Imin/Imax rows and, for every sequence of
\* IA.seqs, the Kd, Kd error, ABA and ABA error stored for the pair.
C3_RoundTrip ==
    call = "IAKdData" =>
        LET o == Val(kd)
            p == o.path
        IN  /\ exc = ""
            /\ o.target = <<<<Target>>>>
            /\ o.neg_control_target = <<<<NegControl>>>>
            /\ IsSet(self.Kds) /\ p \in DOMAIN Val(self.Kds)
            /\ o.Imin = list_if_scalar(Val(self.Imin_max_pairs_given_names)[p].Imin)
            /\ o.Imax = list_if_scalar(Val(self.Imin_max_pairs_given_names)[p].Imax)
            /\ \A i \in DOMAIN IASeqs :
                    /\ i <= Len(Val(self.Kds)[p])
                    /\ <<IASeqs[i]>> \in DOMAIN o.Kd
                    /\ o.Kd[<<IASeqs[i]>>] = Val(self.Kds)[p][i]
                    /\ o.Kd_error[<<IASeqs[i]>>] = Val(self.Kd_errors)[p][i]
                    /\ o.ABA[<<IASeqs[i]>>] = Val(self.ABAs)[p][i]
                    /\ o.ABA_error[<<IASeqs[i]>>] = Val(self.ABA_errors)[p][i]

\* The file handed to the reader.
GivenLines == Val(fs[ExtFile])

\* The first line after the third that begins with '#' (0 when there is none).
FourthHeader(lines) ==
    LET hs == {j \in 4 .. Len(lines) : StartsWithHash(lines[j])}
    IN  IF hs = {} THEN 0 ELSE CHOOSE j \in hs : \A k \in hs : j <= k

\* Each header line begins with the text the reader asks for.
PrefixesPresent(lines) ==
    /\ Len(lines) >= 4
    /\ StartsWith(lines[1].text, <<"# Target", ":">>)
    /\ StartsWith(lines[2].text, <<"# Neg Control">>)
    /\ StartsWith(lines[3].text, ConcHeader)
    /\ FourthHeader(lines) # 0
    /\ StartsWith(lines[FourthHeader(lines)].text, <<"# Seq">>)

\* '# Target: <name>' or '# Neg Control: <name>', character for character.
NamedHeader(text, header) ==
    /\ StartsWith(text, header)
    /\ Len(text) > Len(header)
    /\ \A i \in Len(header) + 1 .. Len(text) : text[i] \notin Whitespace \cup {":"}

\* Each header line is the expected text, character for character.
LiteralHeaders(lines) ==
    /\ Len(lines) >= 4
    /\ NamedHeader(lines[1].text, TargetHeader)
    /\ NamedHeader(lines[2].text, NegControlHeader)
    /\ lines[3].text = ConcHeader
    /\ FourthHeader(lines) # 0
    /\ lines[FourthHeader(lines)].text = SeqHeader

\* No sequence data is stored in the reader object.
NothingStored == DOMAIN Val(kd).Kd = {} /\ DOMAIN Val(kd).ABA = {}

\* C4 (as amended): the reader checks each header line by its beginning only
\* ('# Target:', '# Neg Control', '# Concentration<tab>Imin<tab>Imax', '# Seq'):
\* when a header line does not begin with that text, the construction fails
\* before any sequence data is stored.
C4_PrefixChecked ==
    (call = "IAKdData" /\ ~PrefixesPresent(GivenLines))
        => (exc # "" /\ NothingStored)

\* C4 (as claimed): when a header line differs from the expected text in any
\* character, the construction fails before any sequence data is stored.
C4_LiteralChecked ==
    (call = "IAKdData" /\ ~LiteralHeaders(GivenLines))
        => (exc # "" /\ NothingStored)

\* C4: a file whose second line does not begin with '# Neg Control' has been
\* refused by the assert.
C4_PrefixRejected ==
    /\ call = "IAKdData"
    /\ StartsWith(GivenLines[1].text, <<"# Target", ":">>)
    /\ ~StartsWith(GivenLines[2].text, <<"# Neg Control">>)
    /\ exc = "AssertionError"
    /\ NothingStored

\* Iobs(conc, reference Kd, Imax_const) >= 0.90 * Imax_const at the c-th
\* concentration, for the profiles the estimator holds.
AtLeast90(c) ==
    LET x == Concentrations[c]
        D == x + IA.fit.Kd
        Imax == Val(self.Imax_const)
        Imin == Val(self.Imin_const)
    IN  10 * ((Imax - Imin) * x + Imin * D) * D >= 9 * Imax * D * D

\* entry solves median = (entry - baseline) / (1 + Kd / conc) + baseline at the
\* c-th concentration.
InvertsIsotherm(c, baseline, entry) ==
    LET x == Concentrations[c]
    IN  x * (entry - baseline) = (x + IA.fit.Kd) * (Fx(IA.medians[c]) - baseline)

\* C5 (as amended): Imax_adjusted has one entry per concentration, in order;
\* where the fitted isotherm reaches 90% of Imax_const the entry inverts the
\* isotherm taken with that concentration's own negative-control mode
\* Imin_neg_cont[c] as its baseline, with the concentration's median and the
\* reference Kd; elsewhere it is Imax_const.
C5_NinetyPercentRule ==
    IsSet(self.Imax_adjusted) =>
        /\ DOMAIN Val(self.Imax_adjusted) = 1 .. NConc
        /\ \A c \in 1 .. NConc :
                IF AtLeast90(c)
                    THEN InvertsIsotherm(c, Val(self.Imin_neg_cont)[c],
                                         Val(self.Imax_adjusted)[c])
                    ELSE Val(self.Imax_adjusted)[c] = Val(self.Imax_const)

\* C5 (as claimed): where the fitted isotherm Iobs reaches 90% of Imax_const the
\* entry inverts that isotherm (its baseline is Imin_const); elsewhere it is
\* Imax_const.
C5_InvertsFittedIsotherm ==
    IsSet(self.Imax_adjusted) =>
        /\ DOMAIN Val(self.Imax_adjusted) = 1 .. NConc
        /\ \A c \in 1 .. NConc :
                IF AtLeast90(c)
                    THEN InvertsIsotherm(c, Val(self.Imin_const),
                                         Val(self.Imax_adjusted)[c])
                    ELSE Val(self.Imax_adjusted)[c] = Val(self.Imax_const)

\* C5: find_Imax has taken both branches, the inversion at a concentration whose
\* negative-control mode is not Imin_const.
C5_BothBranchesTaken ==
    /\ call = "find_Imax"
    /\ IsSet(self.Imax_adjusted)
    /\ \E c \in 1 .. NConc :
            /\ AtLeast90(c)
            /\ Val(self.Imin_neg_cont)[c] # Val(self.Imin_const)
            /\ Val(self.Imax_adjusted)[c] # Val(self.Imax_const)
    /\ \E c \in 1 .. NConc : ~AtLeast90(c)

\* C6 (as amended): at every concentration whose predicted isotherm value is
\* below 90% of Imax_const, the Imax_adjusted entry equals Imax_const.
C6_BelowNinetyIsImaxConst ==
    IsSet(self.Imax_adjusted) =>
        \A c \in 1 .. NConc :
            ~AtLeast90(c) => Val(self.Imax_adjusted)[c] = Val(self.Imax_const)

\* C6 (as claimed): at every such concentration the entry differs from
\* Imax_const.
C6_BelowNinetyDiffers ==
    IsSet(self.Imax_adjusted) =>
        \A c \in 1 .. NConc :
            ~AtLeast90(c) => Val(self.Imax_adjusted)[c] # Val(self.Imax_const)

\* C6: find_Imax has met a concentration below 90% of the asymptote.
C6_BelowNinetyReached ==
    /\ call = "find_Imax"
    /\ exc = ""
    /\ IsSet(self.Imax_adjusted)
    /\ \E c \in 1 .. NConc : ~AtLeast90(c)

\* The per-concentration modes of the negative control.
NegControlModes == [c \in 1 .. NConc |-> Fx(Mode(IA.negPools[c]))]

\* C7 (as amended): Imin_const is the mode of the negative control at the first
\* concentration alone, and Imin_neg_cont holds the per-concentration modes.
C7_IminConstIsFirstMode ==
    IsSet(self.Imin_const) =>
        /\ Val(self.Imin_const) = Fx(Mode(IA.negPools[1]))
        /\ Val(self.Imin_neg_cont) = NegControlModes

\* C7 (as claimed): Imin_const is the mode of the negative-control readings of
\* all concentrations pooled, and Imin_neg_cont holds the per-concentration
\* modes.
C7_IminConstIsPooledMode ==
    IsSet(self.Imin_const) =>
        /\ Val(self.Imin_const) = PooledMode(IA)
        /\ Val(self.Imin_neg_cont) = NegControlModes

\* C7: the baseline has been found on a dataset whose pooled mode is not the
\* mode of the first concentration.
C7_PooledModeDiffers ==
    /\ call = "find_Imin_and_background_noise"
    /\ IsSet(self.Imin_const)
    /\ PooledMode(IA) # Fx(Mode(IA.negPools[1]))

\* C8: in every StrategyPair the estimator stores, the saturation profile is at
\* least the paired baseline at every concentration.
C8_ImaxAtLeastImin ==
    IsSet(self.Imin_max_pairs_given_names) =>
        \A p \in DOMAIN Val(self.Imin_max_pairs_given_names) :
            LET Imin == list_if_scalar(Val(self.Imin_max_pairs_given_names)[p].Imin)
                Imax == list_if_scalar(Val(self.Imin_max_pairs_given_names)[p].Imax)
            IN  \A c \in 1 .. NConc : Imax[c] >= Imin[c]

\* The undefined error value.
NaN == "nan"

\* C9: when fit_all_Kds has ended on an estimator whose registered profiles are
\* fitted, it has not raised, and for every sequence without clusters every
\* StrategyPair holds the undefined value as Kd error and as ABA error.
C9_DegeneratePoolGivesNaN ==
    (call = "fit_all_Kds" /\ ProfilesFitted)
        => /\ exc = ""
           /\ IsSet(self.Kd_errors)
           /\ \A p \in DOMAIN Val(self.Kd_errors) :
                \A i \in DOMAIN IASeqs :
                    ClusterCount[IASeqs[i]] = 0 =>
                        /\ i <= Len(Val(self.Kd_errors)[p])
                        /\ i <= Len(Val(self.ABA_errors)[p])
                        /\ Val(self.Kd_errors)[p][i] = NaN
                        /\ Val(self.ABA_errors)[p][i] = NaN

\* C10: when fit_Imax_ML has ended on an estimator whose constant profiles are
\* fitted, it has not raised, and Imax_ML, sigma_consts and sigma_I hold an
\* entry for every registered baseline strategy.
C10_NuisanceFittedPerBaseline ==
    (call = "fit_Imax_ML" /\ IsSet(self.Imin_const) /\ IsSet(self.Imax_const))
        => /\ exc = ""
           /\ \A i \in DOMAIN self.Imin_names :
                /\ self.Imin_names[i] \in DOMAIN Val(self.Imax_ML)
                /\ self.Imin_names[i] \in DOMAIN Val(self.sigma_consts)
                /\ self.Imin_names[i] \in DOMAIN Val(self.sigma_I)

\* The four result dictionaries of the estimator.
ResultTables == {"Kds", "Kd_errors", "ABAs", "ABA_errors"}

\* Everything table t of object s holds is still in table t of object s2: the
\* same strategy pairs, each with the values recorded for it in the same places.
TableKept(s, s2, t) ==
    IsSet(s[t]) =>
        /\ IsSet(s2[t])
        /\ \A p \in DOMAIN Val(s[t]) :
                /\ p \in DOMAIN Val(s2[t])
                /\ Len(Val(s[t])[p]) <= Len(Val(s2[t])[p])
                /\ \A i \in DOMAIN Val(s[t])[p] : Val(s2[t])[p][i] = Val(s[t])[p][i]

NegControlIndex == CHOOSE i \in DOMAIN IASeqs : IASeqs[i] = NegControl

\* C12: ABA is ln(Kd of the negative control) - ln(Kd). When fit_all_Kds has
\* ended on fitted profiles, every StrategyPair holds that value for every
\* sequence, 0 for the negative control; when a file of write_results has been
\* read, the construction has succeeded, ABA_given_Kd is 0 at the negative
\* control's Kd and strictly decreasing in Kd, and for every sequence
\* ABA_given_Kd(Kd[seq]) is the ABA read for it.
C12_ABAIsLogRatio ==
    /\ (call = "fit_all_Kds" /\ ProfilesFitted) =>
            /\ IsSet(self.ABAs)
            /\ \A p \in DOMAIN Val(self.ABAs) :
                    /\ Len(Val(self.ABAs)[p]) = Len(IASeqs)
                    /\ Len(Val(self.Kds)[p]) = Len(IASeqs)
                    /\ \A i \in DOMAIN IASeqs :
                            Val(self.ABAs)[p][i] =
                                ABA(Val(self.Kds)[p][i],
                                    Val(self.Kds)[p][NegControlIndex])
                    /\ Val(self.ABAs)[p][NegControlIndex] = 0
    /\ call = "IAKdData" =>
            LET o == Val(kd)
            IN  /\ exc = ""
                /\ IsSet(o.log_neg_control_Kd)
                /\ ABA_given_Kd(o, o.neg_control_Kd) = <<0>>
                /\ \A k1, k2 \in DOMAIN LnMilli :
                        k1 < k2 => ABA_given_Kd(o, <<k1>>)[1] > ABA_given_Kd(o, <<k2>>)[1]
                /\ \A i \in DOMAIN IASeqs :
                        /\ <<IASeqs[i]>> \in DOMAIN o.Kd
                        /\ ABA_given_Kd(o, <<o.Kd[<<IASeqs[i]>>]>>)
                                = <<o.ABA[<<IASeqs[i]>>]>>
                /\ o.ABA[o.neg_control_target[1]] = 0

\* The last call was a bootstrap ML_fit_Kd on a baseline whose profile is fitted,
\* after find_Imin_and_background_noise, find_Imax and fit_Imax_ML have run.
BootstrapFit ==
    /\ call = "ML_fit_Kd"
    /\ IsSet(ml)
    /\ Val(ml).bootstrap
    /\ ProfilesFitted
    /\ IsSet(self.Imax_const)
    /\ IsSet(self[Val(ml).Imin_name])
    /\ IsSet(self.Imax_ML)

\* The drawn places whose cluster has a reading in inten_list.
Kept(inten_list, idxs) == {k \in DOMAIN idxs : inten_list[idxs[k] + 1] # None}

\* C13: in a bootstrap ML fit the drawn index array has min(pool size, max_clust)
\* entries, each a position of every concentration's intensity list, and the
\* array used at each concentration holds, in the order drawn, the reading at
\* each drawn position that has one (absent ones are skipped, the others keep
\* referring to their own cluster).
C13_BootstrapIndexesApplied ==
    BootstrapFit =>
        LET lol == intensity_lol_given_seq(IA, Val(ml).seq)
            n == Len(lol[1])
        IN  /\ IsSet(Val(ml).bootstrap_idxs)
            /\ IsSet(Val(ml).inten_arrs)
            /\ LET idxs == Val(Val(ml).bootstrap_idxs)
                   arrs == Val(Val(ml).inten_arrs)
               IN  /\ Len(idxs) = Min(n, MaxClust)
                   /\ \A c \in 1 .. NConc :
                        /\ \A k \in DOMAIN idxs : idxs[k] + 1 \in DOMAIN lol[c]
                        /\ Len(arrs[c]) = Cardinality(Kept(lol[c], idxs))
                        /\ \A k \in Kept(lol[c], idxs) :
                                arrs[c][Cardinality({j \in Kept(lol[c], idxs) : j <= k})]
                                    = lol[c][idxs[k] + 1][1]

\* The product of the registered baseline and saturation strategy names.
RegisteredPairs(s) ==
    {<<s.Imin_names[i], s.Imax_names[j]>> :
        i \in DOMAIN s.Imin_names, j \in DOMAIN s.Imax_names}

\* C14: when setup_for_fit has been called (by the caller or by fit_all_Kds) on
\* an estimator whose registered profiles are fitted, the two dispatch tables
\* have exactly the product of the registered names as keys, every Imax_ML pair
\* maps to ML_fit_Kd with the Imax_ML profile of its baseline, and every other
\* pair maps to curve_fit_Kd with the profiles it names.
C14_TablesCoverRegisteredStrategies ==
    (call \in {"setup_for_fit", "fit_all_Kds"} /\ ProfilesFitted) =>
        /\ IsSet(self.fit_func_given_Imin_max_names)
        /\ IsSet(self.Imin_max_pairs_given_names)
        /\ DOMAIN Val(self.fit_func_given_Imin_max_names) = RegisteredPairs(self)
        /\ DOMAIN Val(self.Imin_max_pairs_given_names) = RegisteredPairs(self)
        /\ \A p \in RegisteredPairs(self) :
                LET func == Val(self.fit_func_given_Imin_max_names)[p]
                    pair == Val(self.Imin_max_pairs_given_names)[p]
                IN  /\ pair.Imin = Profile(self, p[1])
                    /\ IF p[2] = "Imax_ML"
                           THEN /\ func = "ML_fit_Kd"
                                /\ p[1] \in DOMAIN Val(self.Imax_ML)
                                /\ pair.Imax = [tag |-> "list",
                                                v |-> Val(self.Imax_ML)[p[1]]]
                           ELSE /\ func = "curve_fit_Kd"
                                /\ pair.Imax = Profile(self, p[2])

====
